---- MODULE Spec2Model ----
(***************************************************************************)
(* Model of ImageProcessor (src/editor_completo_trabalho.py): the pixel    *)
(* matrices it holds, the operations that replace them, and the float      *)
(* arithmetic of the two frame generators.                                 *)
(***************************************************************************)
EXTENDS Integers, Sequences, FiniteSets, TLC

(***************************************************************************)
(* Python floats.  A non-negative real is kept in fixed point as a tuple   *)
(* of NumLimbs digits in base 2^LimbBits, least significant first, the     *)
(* last digit being the integer part: bit i of the number weighs           *)
(* 2^(i - FracBits).  Every float the frame generators produce is 0 or     *)
(* lies in [2^-4, 2^10), so a double (MantBits significant bits) is        *)
(* exactly such a tuple, and an exact product, sum or difference of two of *)
(* them is one as well; FloatRound is the round-to-nearest-even that ends  *)
(* every float operation.                                                  *)
(***************************************************************************)
MantBits == 53
LimbBits == 15
NumLimbs == 5
FracBits == LimbBits * (NumLimbs - 1)
LimbBase == 2 ^ LimbBits
LimbIx == 1 .. NumLimbs

\* the digits of x, computed once
Limbs(x) == SubSeq(x, 1, NumLimbs)

\* float(n) for a non-negative int n < LimbBase
FloatOfInt(n) == Limbs([l \in LimbIx |-> IF l = NumLimbs THEN n ELSE 0])

\* bit i of x
BitAt(x, i) == (x[(i \div LimbBits) + 1] \div (2 ^ (i % LimbBits))) % 2

\* whether x has a one bit below bit n
AnyBelow(x, n) ==
    \/ \E l \in LimbIx : l <= n \div LimbBits /\ x[l] # 0
    \/ x[(n \div LimbBits) + 1] % (2 ^ (n % LimbBits)) # 0

\* index of the leading one bit, -1 for zero
Msb(x) ==
    LET used == {l \in LimbIx : x[l] # 0}
        top == CHOOSE l \in used : \A j \in used : j <= l
        len == Cardinality({b \in 0 .. (LimbBits - 1) : 2 ^ b <= x[top]})
    IN IF used = {} THEN -1 ELSE (top - 1) * LimbBits + len - 1

\* exact x + y
BitsAdd(x, y) ==
    LET carry[l \in 1 .. (NumLimbs + 1)] ==
            IF l = 1 THEN 0 ELSE (x[l - 1] + y[l - 1] + carry[l - 1]) \div LimbBase
    IN Limbs([l \in LimbIx |-> (x[l] + y[l] + carry[l]) % LimbBase])

\* exact x - y, for x >= y
BitsSub(x, y) ==
    LET borrow[l \in 1 .. (NumLimbs + 1)] ==
            IF l = 1 THEN 0
            ELSE IF x[l - 1] - y[l - 1] - borrow[l - 1] < 0 THEN 1 ELSE 0
    IN Limbs([l \in LimbIx |-> (x[l] - y[l] - borrow[l] + LimbBase) % LimbBase])

\* exact n * x for a non-negative int n < LimbBase
BitsMulInt(n, x) ==
    LET carry[l \in 1 .. (NumLimbs + 1)] ==
            IF l = 1 THEN 0 ELSE (n * x[l - 1] + carry[l - 1]) \div LimbBase
    IN Limbs([l \in LimbIx |-> (n * x[l] + carry[l]) % LimbBase])

\* round to nearest double, ties to even; sticky: the exact value has
\* nonzero bits below bit 0
FloatRound(x, sticky) ==
    LET m == Msb(x)
        lo == m - (MantBits - 1)
    IN IF lo <= 0 THEN x
       ELSE LET guard == BitAt(x, lo - 1)
                rest == sticky \/ AnyBelow(x, lo - 1)
                cut == (lo \div LimbBits) + 1
                kept == Limbs([l \in LimbIx |->
                            IF l > cut THEN x[l]
                            ELSE IF l = cut THEN x[l] - (x[l] % (2 ^ (lo % LimbBits)))
                            ELSE 0])
                ulp == Limbs([l \in LimbIx |-> IF l = cut THEN 2 ^ (lo % LimbBits) ELSE 0])
            IN IF guard = 1 /\ (rest \/ BitAt(x, lo) = 1)
               THEN BitsAdd(kept, ulp) ELSE kept

\* k / d : true division of small non-negative ints, as floats
FloatDiv(k, d) ==
    LET x == FloatOfInt(k)
        \* long division, leading digit first: rem[s] after the top s digits
        rem[s \in 0 .. NumLimbs] ==
            IF s = 0 THEN 0
            ELSE (rem[s - 1] * LimbBase + x[NumLimbs + 1 - s]) % d
        q == Limbs([l \in LimbIx |-> (rem[NumLimbs - l] * LimbBase + x[l]) \div d])
    IN FloatRound(q, rem[NumLimbs] # 0)

\* n * a : int times float
FloatMulInt(n, a) == FloatRound(BitsMulInt(n, a), FALSE)

\* a + b
FloatAdd(a, b) == FloatRound(BitsAdd(a, b), FALSE)

\* 1 - a, for a <= 1
FloatOneMinus(a) == FloatRound(BitsSub(FloatOfInt(1), a), FALSE)

\* int(a) : truncation toward zero
IntOfFloat(a) == a[NumLimbs]

(***************************************************************************)
(* Pixel matrices.  A pixel is a tuple <<r, g, b>>, an image a sequence of *)
(* rows, each a sequence of pixels.  NoImage stands for None: a decoded    *)
(* image has at least one row.                                             *)
(***************************************************************************)
NoImage == <<>>
Black == <<0, 0, 0>>

Abs(n) == IF n < 0 THEN -n ELSE n

\* the list a comprehension builds, its elements computed once
List(f) == SubSeq(f, 1, Len(f))

\* s[::-1]
Reverse(s) == List([i \in 1 .. Len(s) |-> s[Len(s) + 1 - i]])

\* the matrix built from a flat row-major pixel list
Reshape(pixels, largura, altura) ==
    List([i \in 1 .. altura |->
        List([j \in 1 .. largura |-> pixels[(i - 1) * largura + (j - 1) + 1]])])

\* [linha.copy() for linha in img]
CopyRows(img) ==
    List([i \in 1 .. Len(img) |-> List([j \in 1 .. Len(img[i]) |-> img[i][j]])])

EspelhamentoHorizontal(m) == List([i \in 1 .. Len(m) |-> Reverse(m[i])])

\* m[:0:-1] : the reversal that stops before the first row
EspelhamentoVerticalTruncado(m) == Reverse(SubSeq(m, 2, Len(m)))

EspelhamentoVertical(m) == Reverse(m)

\* nova[j][i] = m[i][j] : the rotation without the h - 1 - i
Transpor(m) ==
    LET h == Len(m)
        w == Len(m[1])
    IN List([r \in 1 .. w |-> List([c \in 1 .. h |-> m[c][r]])])

\* nova[j][h - 1 - i] = m[i][j]
RotacionarDireita(m) ==
    LET h == Len(m)
        w == Len(m[1])
    IN List([r \in 1 .. w |-> List([c \in 1 .. h |-> m[h + 1 - c][r]])])

\* rotacionar_esquerda turning the way rotacionar_direita does
RotacionarEsquerdaHoraria(m) == RotacionarDireita(m)

\* nova[w - 1 - j][i] = m[i][j]
RotacionarEsquerda(m) ==
    LET h == Len(m)
        w == Len(m[1])
    IN List([r \in 1 .. w |-> List([c \in 1 .. h |-> m[c][w + 1 - r]])])

\* cor_proxima with a strict comparison
CorProximaEstrita(p, alvo_rgb, tolerancia) ==
    \A i \in 1 .. 3 : Abs(p[i] - alvo_rgb[i]) < tolerancia

CorProxima(p, alvo_rgb, tolerancia) ==
    \A i \in 1 .. 3 : Abs(p[i] - alvo_rgb[i]) <= tolerancia

SegmentarPorCor(m, alvo_rgb, tolerancia) ==
    List([i \in 1 .. Len(m) |->
        List([j \in 1 .. Len(m[i]) |->
            IF CorProxima(m[i][j], alvo_rgb, tolerancia) THEN m[i][j] ELSE Black])])

NumFadeFrames == 6
NumMixFrames == 11

\* FadeChannel rounding to nearest: int(c * a + 0.5)
FadeChannelRounded(c, a) ==
    IntOfFloat(FloatAdd(FloatMulInt(c, a), FloatDiv(1, 2)))

\* int(c * a)
FadeChannel(c, a) == IntOfFloat(FloatMulInt(c, a))

\* frame k of the fade, k = 0 .. 5
FadeFrame(k, img) ==
    LET a == FloatDiv(k, 5)
    IN List([i \in 1 .. Len(img) |->
           List([j \in 1 .. Len(img[i]) |->
               << FadeChannel(img[i][j][1], a),
                  FadeChannel(img[i][j][2], a),
                  FadeChannel(img[i][j][3], a) >>])])

FadeFrames(img) == List([n \in 1 .. NumFadeFrames |-> FadeFrame(n - 1, img)])

\* int(c1 * b + c2 * a), b being 1 - a
MixChannel(c1, c2, a, b) ==
    IntOfFloat(FloatAdd(FloatMulInt(c1, b), FloatMulInt(c2, a)))

\* im2[i][j] is read for every i, j of im1: IndexError when im2 lacks one
MixIndexError(im1, im2) ==
    \E i \in 1 .. Len(im1) : \E j \in 1 .. Len(im1[1]) :
        i > Len(im2) \/ j > Len(im2[i])

\* frame k of the mix, k = 0 .. 10, over the rows and columns of im1
MixFrame(k, im1, im2) ==
    LET a == FloatDiv(k, 10)
        b == FloatOneMinus(a)
    IN List([i \in 1 .. Len(im1) |->
           List([j \in 1 .. Len(im1[1]) |->
               << MixChannel(im1[i][j][1], im2[i][j][1], a, b),
                  MixChannel(im1[i][j][2], im2[i][j][2], a, b),
                  MixChannel(im1[i][j][3], im2[i][j][3], a, b) >>])])

MixFrames(im1, im2) == List([n \in 1 .. NumMixFrames |-> MixFrame(n - 1, im1, im2)])

(***************************************************************************)
(* Image files.  A file PIL reads decodes to a size and a flat row-major    *)
(* pixel list (PIL's size and getdata()); ext is the extension of its      *)
(* path and existe whether the path can be opened.  Files has every size up to MaxWidth x      *)
(* MaxHeight with NumPatterns different contents per size, the pixels      *)
(* running through Palette.  Sweep has one single-pixel file per channel   *)
(* value.                                                                  *)
(***************************************************************************)
MaxWidth == 2
MaxHeight == 2
NumPatterns == 2
MaxChannel == 255

Palette ==
    << <<10, 20, 30>>, <<40, 50, 60>>, <<70, 80, 90>>, <<100, 110, 120>>,
       <<3, 97, 252>>, <<250, 5, 2>>, <<200, 0, 0>> >>

Picture(w, h, v) ==
    [ext |-> ".png", existe |-> TRUE, largura |-> w, altura |-> h,
     pixels |-> List([n \in 1 .. (w * h) |-> Palette[((v + n - 1) % Len(Palette)) + 1]])]

Files ==
    {Picture(w, h, v) : w \in 1 .. MaxWidth, h \in 1 .. MaxHeight, v \in 0 .. (NumPatterns - 1)}

\* the files opened in a session: one row, the narrowest and the widest
SessionFiles == {Picture(1, 1, 0), Picture(MaxWidth, 1, 0)}

SweepFile(c) ==
    [ext |-> ".png", existe |-> TRUE, largura |-> 1, altura |-> 1,
     pixels |-> << <<c, MaxChannel - c, (7 * c) % (MaxChannel + 1)>> >>]

Sweep == {SweepFile(c) : c \in 0 .. MaxChannel}

\* the image a file decodes to
Decode(f) == Reshape(f.pixels, f.largura, f.altura)

(***************************************************************************)
(* Text files.  A text is a sequence of one-character strings.  The        *)
(* operators below are str.strip, str.split, int(), str() and readline as  *)
(* the P3 reader and writer use them.                                      *)
(***************************************************************************)
Digits == << "0", "1", "2", "3", "4", "5", "6", "7", "8", "9" >>

IsSpace(c) == c \in {" ", "\n", "\t", "\r"}

IsDigit(c) == \E d \in 1 .. 10 : Digits[d] = c

DigitVal(c) == (CHOOSE d \in 1 .. 10 : Digits[d] = c) - 1

\* str(n)
RECURSIVE Str(_)
Str(n) ==
    IF n < 0 THEN << "-" >> \o Str(-n)
    ELSE IF n < 10 THEN << Digits[n + 1] >>
    ELSE Str(n \div 10) \o << Digits[(n % 10) + 1] >>

\* the value of a digit string, most significant digit first
RECURSIVE DigitsVal(_)
DigitsVal(s) ==
    IF s = <<>> THEN 0 ELSE 10 * DigitsVal(SubSeq(s, 1, Len(s) - 1)) + DigitVal(s[Len(s)])

\* whether int(tok) returns: an optional sign, then digits
IsInt(tok) ==
    LET body == IF tok # <<>> /\ tok[1] \in {"+", "-"} THEN Tail(tok) ELSE tok
    IN body # <<>> /\ \A n \in 1 .. Len(body) : IsDigit(body[n])

\* int(tok)
IntOf(tok) ==
    IF tok[1] = "-" THEN -DigitsVal(Tail(tok))
    ELSE IF tok[1] = "+" THEN DigitsVal(Tail(tok))
    ELSE DigitsVal(tok)

\* s.strip()
RECURSIVE Strip(_)
Strip(s) ==
    IF s = <<>> THEN s
    ELSE IF IsSpace(s[1]) THEN Strip(Tail(s))
    ELSE IF IsSpace(s[Len(s)]) THEN Strip(SubSeq(s, 1, Len(s) - 1))
    ELSE s

\* s.split(): the maximal runs of non-space characters; cur is the run
\* being read
RECURSIVE SplitFrom(_, _)
SplitFrom(s, cur) ==
    IF s = <<>> THEN (IF cur = <<>> THEN <<>> ELSE << cur >>)
    ELSE IF IsSpace(s[1])
         THEN (IF cur = <<>> THEN <<>> ELSE << cur >>) \o SplitFrom(Tail(s), <<>>)
         ELSE SplitFrom(Tail(s), Append(cur, s[1]))

Split(s) == SplitFrom(s, <<>>)

\* sep.join(parts)
RECURSIVE Join(_, _)
Join(sep, parts) ==
    IF parts = <<>> THEN <<>>
    ELSE IF Len(parts) = 1 THEN parts[1]
    ELSE parts[1] \o sep \o Join(sep, Tail(parts))

\* length of the line f.readline() returns: up to and including the first
\* newline, or all of s
LineLen(s) ==
    IF \E n \in 1 .. Len(s) : s[n] = "\n"
    THEN CHOOSE n \in 1 .. Len(s) : s[n] = "\n" /\ \A m \in 1 .. (n - 1) : s[m] # "\n"
    ELSE Len(s)

ReadLine(s) == SubSeq(s, 1, LineLen(s))

AfterLine(s) == SubSeq(s, LineLen(s) + 1, Len(s))

(***************************************************************************)
(* The P3 reader and writer.                                               *)
(***************************************************************************)
P3 == << "P", "3" >>

\* what a decoder returns: the image, or the exception it raised
Decoded(img) == [err |-> "none", img |-> img]

Failed(e) == [err |-> e, img |-> NoImage]

\* the pixel at index idx = (i * largura + j) * 3 of dados, 0-based
PixelAt(dados, idx) == << dados[idx + 1], dados[idx + 2], dados[idx + 3] >>

CarregarPpmP3(texto) ==
    LET cabecalho == ReadLine(texto)
        resto1 == AfterLine(texto)
        dims == Split(ReadLine(resto1))
        resto2 == AfterLine(AfterLine(resto1))
        toks == Split(resto2)
    IN IF Strip(cabecalho) # P3 THEN Failed("ValueError")
       ELSE IF \E n \in 1 .. Len(dims) : ~IsInt(dims[n]) THEN Failed("ValueError")
       ELSE IF Len(dims) # 2 THEN Failed("ValueError")
       ELSE IF \E n \in 1 .. Len(toks) : ~IsInt(toks[n]) THEN Failed("ValueError")
       ELSE LET largura == IntOf(dims[1])
                altura == IntOf(dims[2])
                dados == List([n \in 1 .. Len(toks) |-> IntOf(toks[n])])
            IN IF largura > 0 /\ altura > 0 /\ Len(dados) < largura * altura * 3
               THEN Failed("IndexError")
               ELSE Decoded(List([i \in 1 .. altura |->
                        List([j \in 1 .. largura |->
                            PixelAt(dados, ((i - 1) * largura + (j - 1)) * 3)])]))

\* one row the writer emits, its pixels run together without a separator
SalvarPpmP3LinhaColada(linha) ==
    Join(<<>>, List([j \in 1 .. Len(linha) |->
        Join(<< " " >>, << Str(linha[j][1]), Str(linha[j][2]), Str(linha[j][3]) >>)]))
      \o << "\n" >>

\* one row the writer emits
SalvarPpmP3Linha(linha) ==
    Join(<< " " >>, List([j \in 1 .. Len(linha) |->
        Join(<< " " >>, << Str(linha[j][1]), Str(linha[j][2]), Str(linha[j][3]) >>)]))
      \o << "\n" >>

\* the text salvar_ppm_p3 writes for the image m
SalvarPpmP3(m) ==
    P3 \o << "\n" >> \o Str(Len(m[1])) \o << " " >> \o Str(Len(m)) \o << "\n" >>
       \o Str(MaxChannel) \o << "\n" >>
       \o Join(<<>>, List([i \in 1 .. Len(m) |-> SalvarPpmP3Linha(m[i])]))

\* a .ppm file holding texto
PpmFile(texto) == [ext |-> ".ppm", existe |-> TRUE, texto |-> texto]

\* a path that cannot be opened
Missing == [ext |-> ".ppm", existe |-> FALSE, texto |-> <<>>]

\* the file salvar_imagem writes for the image m
SalvarImagem(m) ==
    [ext |-> ".png", existe |-> TRUE, largura |-> Len(m[1]), altura |-> Len(m),
     pixels |-> List([n \in 1 .. (Len(m) * Len(m[1])) |->
                   m[((n - 1) \div Len(m[1])) + 1][((n - 1) % Len(m[1])) + 1]])]

\* img of carregar_imagem: the decoded file, or the exception raised
Carregar(f) ==
    IF ~f.existe THEN Failed("FileNotFoundError")
    ELSE IF f.ext = ".ppm" THEN CarregarPpmP3(f.texto)
    ELSE Decoded(Decode(f))

\* a P3 text with the given first line, size and pixel values
PpmTexto(magic, largura, altura, dados) ==
    magic \o << "\n" >> \o Str(largura) \o << " " >> \o Str(altura) \o << "\n" >>
       \o Str(MaxChannel) \o << "\n" >>
       \o Join(<< " " >>, List([n \in 1 .. Len(dados) |-> Str(dados[n])])) \o << "\n" >>

\* the channel values of the pixels of a picture, in file order
Valores(f) ==
    List([n \in 1 .. (3 * Len(f.pixels)) |-> f.pixels[((n - 1) \div 3) + 1][((n - 1) % 3) + 1]])

\* the first lines tried: the P3 token and another one
Magics == { P3, << "P", "6" >> }

\* how many values more than largura * altura * 3 a file carries
Excessos == {-1, 0, 1}

\* the P3 file of picture f with first line magic and d values too many
\* (too few, for d < 0)
PpmVariante(f, magic, d) ==
    LET v == Valores(f)
        dados == IF d < 0 THEN SubSeq(v, 1, Len(v) + d)
                 ELSE v \o List([n \in 1 .. d |-> 7])
    IN PpmFile(PpmTexto(magic, f.largura, f.altura, dados))

PpmFiles == {PpmVariante(f, magic, d) : f \in Files, magic \in Magics, d \in Excessos}

\* the files a session fails to open: a missing one, one with a wrong
\* first line, one with too few values
BadFiles ==
    { Missing,
      PpmVariante(Picture(1, 1, 0), << "P", "6" >>, 0),
      PpmVariante(Picture(1, 1, 0), P3, -1) }

\* the colours and tolerances segmentation is asked for
SegArgs == { << <<255, 0, 0>>, 10 >>, << <<40, 50, 60>>, 30 >> }

(***************************************************************************)
(* The processor.  lastOp and err record the last method called and the    *)
(* exception it raised ("none" when it returned), arquivo the file that    *)
(* call wrote: << >> when it wrote none, << file >> otherwise.             *)
(***************************************************************************)
VARIABLES original, resultado, alpha_frames, alpha_index, second_image, lastOp, err,
          arquivo

vars ==
    << original, resultado, alpha_frames, alpha_index, second_image, lastOp, err,
       arquivo >>

fields == << original, resultado, alpha_frames, alpha_index, second_image >>

Init ==
    /\ original = NoImage
    /\ resultado = NoImage
    /\ alpha_frames = <<>>
    /\ alpha_index = 0
    /\ second_image = NoImage
    /\ lastOp = "init"
    /\ err = "none"
    /\ arquivo = <<>>

\* a call of op that returned (e = "none") or raised e
Called(op, e) == lastOp' = op /\ err' = e /\ arquivo' = <<>>

\* a call of op that wrote file
Wrote(op, e, file) == lastOp' = op /\ err' = e /\ arquivo' = << file >>

\* a call that raises before it assigns anything
Raises(op, e) == UNCHANGED fields /\ Called(op, e)

\* carregar_imagem resetting original and resultado before it decodes
carregar_imagem_reset_first(f) ==
    LET d == Carregar(f)
    IN IF d.err # "none"
       THEN /\ original' = NoImage
            /\ resultado' = NoImage
            /\ UNCHANGED << alpha_frames, alpha_index, second_image >>
            /\ Called("carregar_imagem", d.err)
       ELSE /\ original' = d.img
            /\ resultado' = CopyRows(d.img)
            /\ UNCHANGED << alpha_frames, alpha_index, second_image >>
            /\ Called("carregar_imagem", "none")

carregar_imagem(f) ==
    LET d == Carregar(f)
    IN IF d.err # "none"
       THEN Raises("carregar_imagem", d.err)
       ELSE /\ original' = d.img
            /\ resultado' = CopyRows(d.img)
            /\ UNCHANGED << alpha_frames, alpha_index, second_image >>
            /\ Called("carregar_imagem", "none")

salvar_imagem ==
    IF resultado = NoImage
    THEN Raises("salvar_imagem", "TypeError")
    ELSE /\ UNCHANGED fields
         /\ Wrote("salvar_imagem", "none", SalvarImagem(resultado))

salvar_ppm_p3 ==
    IF resultado = NoImage
    THEN \* the file is opened for writing, then len(None) raises
         /\ UNCHANGED fields
         /\ Wrote("salvar_ppm_p3", "TypeError", PpmFile(<<>>))
    ELSE /\ UNCHANGED fields
         /\ Wrote("salvar_ppm_p3", "none", PpmFile(SalvarPpmP3(resultado)))

\* preparar_mistura ending the animation in progress
preparar_mistura_clearing(f) ==
    /\ second_image' = Decode(f)
    /\ alpha_frames' = <<>>
    /\ alpha_index' = 0
    /\ UNCHANGED << original, resultado >>
    /\ Called("preparar_mistura", "none")

preparar_mistura(f) ==
    /\ second_image' = Decode(f)
    /\ UNCHANGED << original, resultado, alpha_frames, alpha_index >>
    /\ Called("preparar_mistura", "none")

\* restaurar_original taking a missing original for an empty image
restaurar_original_unguarded ==
    /\ resultado' = CopyRows(original)
    /\ alpha_frames' = <<>>
    /\ alpha_index' = 0
    /\ UNCHANGED << original, second_image >>
    /\ Called("restaurar_original", "none")

restaurar_original ==
    IF original = NoImage
    THEN Raises("restaurar_original", "TypeError")
    ELSE /\ resultado' = CopyRows(original)
         /\ alpha_frames' = <<>>
         /\ alpha_index' = 0
         /\ UNCHANGED << original, second_image >>
         /\ Called("restaurar_original", "none")

\* Replace writing into the rows resultado was copied from: original
\* follows resultado while the two are equal
ReplaceThroughOriginal(op, nova) ==
    IF resultado = NoImage
    THEN Raises(op, "TypeError")
    ELSE /\ resultado' = nova
         /\ original' = IF original = resultado THEN nova ELSE original
         /\ UNCHANGED << alpha_frames, alpha_index, second_image >>
         /\ Called(op, "none")

\* Replace writing into the frame resultado was taken from
ReplaceInFrame(op, nova) ==
    IF resultado = NoImage
    THEN Raises(op, "TypeError")
    ELSE /\ resultado' = nova
         /\ alpha_frames' =
               IF alpha_frames # <<>> /\ resultado = alpha_frames[alpha_index + 1]
               THEN [alpha_frames EXCEPT ![alpha_index + 1] = nova]
               ELSE alpha_frames
         /\ UNCHANGED << original, alpha_index, second_image >>
         /\ Called(op, "none")

\* the shape of the four geometric methods and of segmentar_por_cor
Replace(op, nova) ==
    IF resultado = NoImage
    THEN Raises(op, "TypeError")
    ELSE /\ resultado' = nova
         /\ UNCHANGED << original, alpha_frames, alpha_index, second_image >>
         /\ Called(op, "none")

aplicar_espelhamento_horizontal ==
    Replace("aplicar_espelhamento_horizontal", EspelhamentoHorizontal(resultado))

aplicar_espelhamento_vertical ==
    Replace("aplicar_espelhamento_vertical", EspelhamentoVertical(resultado))

rotacionar_direita == Replace("rotacionar_direita", RotacionarDireita(resultado))

rotacionar_esquerda == Replace("rotacionar_esquerda", RotacionarEsquerda(resultado))

segmentar_por_cor(alvo_rgb, tolerancia) ==
    Replace("segmentar_por_cor", SegmentarPorCor(resultado, alvo_rgb, tolerancia))

\* aplicar_transparencia_preto fading resultado instead of original
aplicar_transparencia_preto_of_result ==
    IF original = NoImage
    THEN /\ alpha_frames' = <<>>
         /\ UNCHANGED << original, resultado, alpha_index, second_image >>
         /\ Called("aplicar_transparencia_preto", "TypeError")
    ELSE /\ alpha_frames' = FadeFrames(resultado)
         /\ resultado' = alpha_frames'[1]
         /\ alpha_index' = 0
         /\ UNCHANGED << original, second_image >>
         /\ Called("aplicar_transparencia_preto", "none")

aplicar_transparencia_preto ==
    IF original = NoImage
    THEN \* alpha_frames is cleared, then iterating None raises
         /\ alpha_frames' = <<>>
         /\ UNCHANGED << original, resultado, alpha_index, second_image >>
         /\ Called("aplicar_transparencia_preto", "TypeError")
    ELSE /\ alpha_frames' = FadeFrames(original)
         /\ resultado' = alpha_frames'[1]
         /\ alpha_index' = 0
         /\ UNCHANGED << original, second_image >>
         /\ Called("aplicar_transparencia_preto", "none")

\* alpha_index and resultado after avancar_transparencia, as a pair
Avancar(frames, st) ==
    IF frames = <<>> THEN st
    ELSE LET nxt == (st[1] + 1) % Len(frames)
         IN << nxt, frames[nxt + 1] >>

avancar_transparencia ==
    LET st == Avancar(alpha_frames, << alpha_index, resultado >>)
    IN /\ alpha_index' = st[1]
       /\ resultado' = st[2]
       /\ UNCHANGED << original, alpha_frames, second_image >>
       /\ Called("avancar_transparencia", "none")

\* aplicar_mistura clearing alpha_frames before it looks for second_image
aplicar_mistura_clear_first ==
    IF second_image = NoImage
    THEN /\ alpha_frames' = <<>>
         /\ UNCHANGED << original, resultado, alpha_index, second_image >>
         /\ Called("aplicar_mistura", "ValueError")
    ELSE IF original = NoImage
    THEN Raises("aplicar_mistura", "TypeError")
    ELSE IF MixIndexError(original, second_image)
    THEN /\ alpha_frames' = <<>>
         /\ UNCHANGED << original, resultado, alpha_index, second_image >>
         /\ Called("aplicar_mistura", "IndexError")
    ELSE /\ alpha_frames' = MixFrames(original, second_image)
         /\ resultado' = alpha_frames'[1]
         /\ alpha_index' = 0
         /\ UNCHANGED << original, second_image >>
         /\ Called("aplicar_mistura", "none")

aplicar_mistura ==
    IF second_image = NoImage
    THEN Raises("aplicar_mistura", "ValueError")
    ELSE IF original = NoImage
    THEN Raises("aplicar_mistura", "TypeError")
    ELSE IF MixIndexError(original, second_image)
    THEN \* alpha_frames is cleared, then building frame 0 raises
         /\ alpha_frames' = <<>>
         /\ UNCHANGED << original, resultado, alpha_index, second_image >>
         /\ Called("aplicar_mistura", "IndexError")
    ELSE /\ alpha_frames' = MixFrames(original, second_image)
         /\ resultado' = alpha_frames'[1]
         /\ alpha_index' = 0
         /\ UNCHANGED << original, second_image >>
         /\ Called("aplicar_mistura", "none")

\* alpha_index and resultado after n calls of avancar_transparencia
RECURSIVE AvancarN(_, _, _)
AvancarN(n, frames, st) ==
    IF n = 0 THEN st ELSE AvancarN(n - 1, frames, Avancar(frames, st))

Next ==
    \/ \E f \in SessionFiles \cup BadFiles : carregar_imagem(f)
    \/ \E f \in SessionFiles : preparar_mistura(f)
    \/ salvar_imagem
    \/ salvar_ppm_p3
    \/ restaurar_original
    \/ aplicar_espelhamento_horizontal
    \/ aplicar_espelhamento_vertical
    \/ rotacionar_direita
    \/ rotacionar_esquerda
    \/ \E a \in SegArgs : segmentar_por_cor(a[1], a[2])
    \/ aplicar_transparencia_preto
    \/ avancar_transparencia
    \/ aplicar_mistura

Spec == Init /\ [][Next]_vars

(***************************************************************************)
(* The frame generators on their own: the processor right after            *)
(* carregar_imagem of any file and, for the mix, preparar_mistura of any   *)
(* file or none, then the generator and avancar_transparencia.             *)
(***************************************************************************)
Loaded(img, img2) ==
    /\ original = img
    /\ resultado = CopyRows(img)
    /\ alpha_frames = <<>>
    /\ alpha_index = 0
    /\ second_image = img2
    /\ lastOp = IF img2 = NoImage THEN "carregar_imagem" ELSE "preparar_mistura"
    /\ err = "none"
    /\ arquivo = <<>>

InitFade == \E f \in Files \cup Sweep : Loaded(Decode(f), NoImage)

NextFade == aplicar_transparencia_preto \/ avancar_transparencia

SpecFade == InitFade /\ [][NextFade]_vars

\* the pairs mixed: any two files, and every swept file with itself and
\* with its successor
MixPairs ==
    {<<Decode(f), Decode(g)>> : f \in Files, g \in Files}
        \cup {<<Decode(f), NoImage>> : f \in Files}
        \cup {<<Decode(f), Decode(f)>> : f \in Sweep}
        \cup {<<Decode(SweepFile(c)), Decode(SweepFile((c + 1) % (MaxChannel + 1)))>> :
                c \in 0 .. MaxChannel}

InitMix == \E p \in MixPairs : Loaded(p[1], p[2])

NextMix == aplicar_mistura \/ avancar_transparencia

SpecMix == InitMix /\ [][NextMix]_vars

(***************************************************************************)
(* The transforms on their own: the processor right after carregar_imagem  *)
(* of any file, then the four geometric methods and segmentar_por_cor.     *)
(***************************************************************************)
\* Files and the one-row picture of the pixels (250, 5, 2) and (200, 0, 0)
GeoFiles == Files \cup {Picture(2, 1, 5)}

InitGeo == \E f \in GeoFiles : Loaded(Decode(f), NoImage)

NextGeo ==
    \/ aplicar_espelhamento_horizontal
    \/ aplicar_espelhamento_vertical
    \/ rotacionar_direita
    \/ rotacionar_esquerda
    \/ \E a \in SegArgs : segmentar_por_cor(a[1], a[2])

SpecGeo == InitGeo /\ [][NextGeo]_vars

(***************************************************************************)
(* Saving and loading on their own: the processor right after              *)
(* carregar_imagem of any file, then the two writers, rotacionar_direita,  *)
(* and carregar_imagem of any P3 file or of the file just written.         *)
(***************************************************************************)
\* the file the last call wrote, if any
Written == {arquivo[n] : n \in 1 .. Len(arquivo)}

InitPpm == \E f \in Files : Loaded(Decode(f), NoImage)

NextPpm ==
    \/ salvar_ppm_p3
    \/ salvar_imagem
    \/ rotacionar_direita
    \/ \E f \in PpmFiles \cup Written : carregar_imagem(f)

SpecPpm == InitPpm /\ [][NextPpm]_vars

(***************************************************************************)
(* Properties.                                                             *)
(***************************************************************************)
TransformOps ==
    {"aplicar_espelhamento_horizontal", "aplicar_espelhamento_vertical",
     "rotacionar_direita", "rotacionar_esquerda", "segmentar_por_cor"}

\* rows and columns of an image
Dims(m) == << Len(m), Len(m[1]) >>

\* alpha_index and resultado, the pair avancar_transparencia works on
Cursor == << alpha_index, resultado >>

\* C1: whenever the frame sequence is non-empty, resultado is the frame at
\* alpha_index.
C1_ResultIsCurrentFrame ==
    alpha_frames # <<>> => resultado = alpha_frames[alpha_index + 1]

\* C2: right after one of the four geometric transforms or the segmentation
\* has returned, the frame sequence is empty and one more
\* avancar_transparencia would leave resultado as it is.
C2_TransformClearsFrames ==
    (lastOp \in TransformOps /\ err = "none")
        => /\ alpha_frames = <<>>
           /\ Avancar(alpha_frames, Cursor)[2] = resultado

\* C3: a call of carregar_imagem that returns sets original to the decoded
\* image and resultado to a copy of it, empties the frame sequence and keeps
\* second_image; avancar_transparencia is then a no-op.
C3_LoadResetsSession ==
    [][(lastOp' = "carregar_imagem" /\ err' = "none") =>
        /\ \E f \in SessionFiles : original' = Decode(f)
        /\ resultado' = original'
        /\ alpha_frames' = <<>>
        /\ second_image' = second_image
        /\ Avancar(alpha_frames', << alpha_index', resultado' >>)
              = << alpha_index', resultado' >>]_vars

\* C4: aplicar_mistura on an original and a second image of different
\* dimensions raises, and no frame sequence is ever built from such a pair.
C4_MismatchRaises ==
    (original # NoImage /\ second_image # NoImage /\ Dims(original) # Dims(second_image))
        => /\ alpha_frames = <<>>
           /\ (lastOp = "aplicar_mistura" => err # "none")

\* C5: a call of aplicar_mistura made while no second image is loaded raises
\* and leaves original, resultado, the frame sequence and alpha_index as
\* they were.
C5_MixWithoutSecond ==
    [][(lastOp' = "aplicar_mistura" /\ second_image = NoImage) =>
        /\ err' # "none"
        /\ UNCHANGED << original, resultado, alpha_frames, alpha_index >>]_vars

\* a mix refused for want of a second image while a frame sequence exists
C5_Witness ==
    /\ lastOp = "aplicar_mistura"
    /\ err = "ValueError"
    /\ second_image = NoImage
    /\ alpha_frames # <<>>

\* C6: a call of restaurar_original made while no original is loaded raises
\* and leaves resultado, the frame sequence and alpha_index as they were.
C6_RestoreWithoutOriginal ==
    [][(lastOp' = "restaurar_original" /\ original = NoImage) =>
        /\ err' # "none"
        /\ UNCHANGED << resultado, alpha_frames, alpha_index >>]_vars

\* a restore refused for want of an original
C6_Witness ==
    /\ lastOp = "restaurar_original"
    /\ err # "none"
    /\ original = NoImage

\* C7: avancar_transparencia moves alpha_index to (alpha_index + 1) mod
\* len(alpha_frames) and sets resultado to that frame; len(alpha_frames)
\* calls in a row bring alpha_index and resultado back to where they were;
\* on an empty frame sequence it changes nothing.
C7_AdvanceWraps ==
    LET after == Avancar(alpha_frames, Cursor)
    IN /\ alpha_frames = <<>> => after = Cursor
       /\ alpha_frames # <<>> =>
            /\ after[1] = (alpha_index + 1) % Len(alpha_frames)
            /\ after[2] = alpha_frames[after[1] + 1]
       /\ AvancarN(Len(alpha_frames), alpha_frames, Cursor) = Cursor

\* C8: right after aplicar_transparencia_preto has returned, resultado is
\* frame 0 and alpha_index is 0, and five calls of avancar_transparencia
\* make resultado equal to original, whatever resultado was before.
C8_FadeFromOriginal ==
    (lastOp = "aplicar_transparencia_preto" /\ err = "none")
        => /\ alpha_index = 0
           /\ resultado = alpha_frames[1]
           /\ AvancarN(5, alpha_frames, Cursor) = << 5, original >>

\* five calls of avancar_transparencia after a fade have shown original
C8_Witness ==
    /\ lastOp = "avancar_transparencia"
    /\ alpha_frames = FadeFrames(original)
    /\ alpha_index = 5
    /\ resultado = original
    /\ Len(original[1]) > 1

\* C9: the fade has exactly 6 frames, each of the dimensions of original;
\* every channel of frame k is floor(channel * k / 5); frame 0 is all black
\* and frame 5 is original.
C9_FadeFrames ==
    alpha_frames # <<>> =>
        /\ Len(alpha_frames) = 6
        /\ \A k \in 0 .. 5 :
              /\ Len(alpha_frames[k + 1]) = Len(original)
              /\ \A i \in 1 .. Len(original) :
                    /\ Len(alpha_frames[k + 1][i]) = Len(original[i])
                    /\ \A j \in 1 .. Len(original[i]) : \A c \in 1 .. 3 :
                          alpha_frames[k + 1][i][j][c] = (original[i][j][c] * k) \div 5
        /\ \A i \in 1 .. Len(original) : \A j \in 1 .. Len(original[i]) :
              alpha_frames[1][i][j] = Black
        /\ alpha_frames[6] = original

\* the fade of the single pixel (7, 248, 49), whose frame 3 is truncated to
\* (4, 148, 29)
C9_Witness ==
    /\ original = << << <<7, 248, 49>> >> >>
    /\ alpha_frames # <<>>
    /\ alpha_frames[4] = << << <<4, 148, 29>> >> >>

\* C10: the mix of two images of equal dimensions has exactly 11 frames,
\* frame 0 being the first image and frame 10 the second; the mix of an
\* image with itself has 11 frames equal to it.
C10_MixEndpoints ==
    (alpha_frames # <<>> /\ Dims(original) = Dims(second_image)) =>
        /\ Len(alpha_frames) = 11
        /\ alpha_frames[1] = original
        /\ alpha_frames[11] = second_image
        /\ original = second_image =>
              \A n \in 1 .. 11 : alpha_frames[n] = original

Generators == {"aplicar_transparencia_preto", "aplicar_mistura"}

\* C11: no call other than carregar_imagem changes original: restore, the
\* transforms, the segmentation, the two frame generators, the advance,
\* preparar_mistura and the two writers leave it as it was.
C11_OnlyLoadSetsOriginal ==
    [][lastOp' # "carregar_imagem" => original' = original]_vars

\* resultado, a copy of original, has been mirrored and differs from it
C11_Witness ==
    /\ lastOp = "aplicar_espelhamento_horizontal"
    /\ err = "none"
    /\ resultado = EspelhamentoHorizontal(original)
    /\ resultado # original

\* C12: while a frame sequence exists no call other than restaurar_original
\* and the two frame generators changes it, in particular not a transform
\* of a resultado taken from it nor avancar_transparencia; a sequence is
\* replaced by another one only by a generator that returns, and a
\* generator that returns leaves alpha_index at 0.
C12_FramesImmutable ==
    [][alpha_frames # <<>> =>
        /\ lastOp' \notin (Generators \cup {"restaurar_original"})
              => alpha_frames' = alpha_frames
        /\ (alpha_frames' # alpha_frames /\ alpha_frames' # <<>>)
              => (lastOp' \in Generators /\ err' = "none")
        /\ (lastOp' \in Generators /\ err' = "none")
              => (alpha_index' = 0 /\ alpha_frames' # <<>>)]_vars

\* the frame under the cursor has been mirrored into resultado and is
\* still in the sequence
C12_Witness ==
    /\ lastOp = "aplicar_espelhamento_horizontal"
    /\ err = "none"
    /\ alpha_frames # <<>>
    /\ alpha_index > 0
    /\ resultado = EspelhamentoHorizontal(alpha_frames[alpha_index + 1])
    /\ resultado # alpha_frames[alpha_index + 1]

\* C13: preparar_mistura sets second_image to the decoded file and leaves
\* original, resultado, the frame sequence and alpha_index as they were.
C13_LoadSecondOnlySetsSecond ==
    [][lastOp' = "preparar_mistura" =>
        /\ \E f \in SessionFiles : second_image' = Decode(f)
        /\ UNCHANGED << original, resultado, alpha_frames, alpha_index >>]_vars

\* a second image loaded in the middle of an animation
C13_Witness ==
    /\ lastOp = "preparar_mistura"
    /\ second_image # NoImage
    /\ alpha_frames # <<>>
    /\ alpha_index > 0
    /\ resultado = alpha_frames[alpha_index + 1]

\* C14: rotating resultado clockwise then counter-clockwise, or
\* counter-clockwise then clockwise, gives resultado back, and so do four
\* clockwise rotations in a row.
C14_RotationsInverse ==
    resultado # NoImage =>
        /\ RotacionarEsquerda(RotacionarDireita(resultado)) = resultado
        /\ RotacionarDireita(RotacionarEsquerda(resultado)) = resultado
        /\ RotacionarDireita(RotacionarDireita(
                RotacionarDireita(RotacionarDireita(resultado)))) = resultado

\* a non-square image rotated away and back
C14_Witness ==
    /\ lastOp = "rotacionar_esquerda"
    /\ err = "none"
    /\ resultado = original
    /\ Len(original) # Len(original[1])
    /\ RotacionarDireita(original) # original

\* C15: rotacionar_direita turns an h-row, w-column resultado into one of
\* w rows and h columns whose pixel at row j, column h - 1 - i is the old
\* pixel at row i, column j (rows and columns counted from 0).
C15_RotateClockwise ==
    [][(lastOp' = "rotacionar_direita" /\ err' = "none") =>
        LET h == Len(resultado)
            w == Len(resultado[1])
        IN /\ Len(resultado') = w
           /\ \A j \in 0 .. (w - 1) :
                 /\ Len(resultado'[j + 1]) = h
                 /\ \A i \in 0 .. (h - 1) :
                       resultado'[j + 1][(h - 1 - i) + 1] = resultado[i + 1][j + 1]]_vars

\* [[A, B], [C, D]] rotated into [[C, A], [D, B]]
C15_Witness ==
    /\ lastOp = "rotacionar_direita"
    /\ original = << << <<10, 20, 30>>, <<40, 50, 60>> >>,
                     << <<70, 80, 90>>, <<100, 110, 120>> >> >>
    /\ resultado = << << <<70, 80, 90>>, <<10, 20, 30>> >>,
                      << <<100, 110, 120>>, <<40, 50, 60>> >> >>

\* C16: mirroring resultado twice the same way, horizontally or
\* vertically, gives resultado back, and one mirroring keeps the number of
\* rows and the length of every row.
C16_MirrorsInvolutive ==
    resultado # NoImage =>
        /\ EspelhamentoHorizontal(EspelhamentoHorizontal(resultado)) = resultado
        /\ EspelhamentoVertical(EspelhamentoVertical(resultado)) = resultado
        /\ Len(EspelhamentoHorizontal(resultado)) = Len(resultado)
        /\ Len(EspelhamentoVertical(resultado)) = Len(resultado)
        /\ \A i \in 1 .. Len(resultado) :
              /\ Len(EspelhamentoHorizontal(resultado)[i]) = Len(resultado[i])
              /\ Len(EspelhamentoVertical(resultado)[i]) = Len(resultado[i])

\* an image that is not its own mirror, mirrored vertically and back
C16_Witness ==
    /\ lastOp = "aplicar_espelhamento_vertical"
    /\ err = "none"
    /\ resultado = original
    /\ EspelhamentoVertical(original) # original
    /\ EspelhamentoHorizontal(original) # original

\* C17: segmentar_por_cor keeps the rows and columns of resultado, keeps a
\* pixel whose three channels are each within tolerancia of the target's,
\* the bound included, and makes every other pixel (0, 0, 0).
C17_Segmentation ==
    [][\A a \in SegArgs :
          (segmentar_por_cor(a[1], a[2]) /\ err' = "none") =>
              /\ Len(resultado') = Len(resultado)
              /\ \A i \in 1 .. Len(resultado) :
                    /\ Len(resultado'[i]) = Len(resultado[i])
                    /\ \A j \in 1 .. Len(resultado[i]) :
                          resultado'[i][j] =
                              IF \A c \in 1 .. 3 :
                                    /\ resultado[i][j][c] - a[1][c] <= a[2]
                                    /\ a[1][c] - resultado[i][j][c] <= a[2]
                              THEN resultado[i][j]
                              ELSE << 0, 0, 0 >>]_vars

\* target (255, 0, 0), tolerance 10: (250, 5, 2) kept, (200, 0, 0) zeroed
C17_Witness ==
    /\ lastOp = "segmentar_por_cor"
    /\ original = << << <<250, 5, 2>>, <<200, 0, 0>> >> >>
    /\ resultado = << << <<250, 5, 2>>, <<0, 0, 0>> >> >>

\* C18: carregar_imagem of a P3 file raises whenever the first line of the
\* file is not P3 or the file carries fewer or more values than
\* largura * altura * 3.
C18_MalformedRejected ==
    [][\A f \in Files : \A magic \in Magics : \A d \in Excessos :
          (carregar_imagem(PpmVariante(f, magic, d)) /\ (magic # P3 \/ d # 0))
              => err' # "none"]_vars

\* C19: the file salvar_ppm_p3 wrote for resultado, loaded by
\* carregar_imagem, decodes without error to a matrix equal to that
\* resultado.
C19_RoundTrip ==
    [][(lastOp = "salvar_ppm_p3" /\ err = "none" /\ carregar_imagem(arquivo[1]))
          => /\ err' = "none"
             /\ original' = resultado
             /\ resultado' = resultado]_vars

\* a rotated two-pixel image, saved and loaded back: no file of PpmFiles
\* holds these pixels in this order
C19_Witness ==
    /\ lastOp = "carregar_imagem"
    /\ err = "none"
    /\ original = << << <<40, 50, 60>>, <<10, 20, 30>> >> >>
    /\ resultado = original

\* C20: a call of carregar_imagem that raises leaves original, resultado,
\* the frame sequence, alpha_index and second_image as they were.
C20_FailedLoadKeepsSession ==
    [][(lastOp' = "carregar_imagem" /\ err' # "none") => UNCHANGED fields]_vars

\* a load that failed for want of pixel values, in the middle of an
\* animation and with a second image loaded
C20_Witness ==
    /\ lastOp = "carregar_imagem"
    /\ err = "IndexError"
    /\ original # NoImage
    /\ second_image # NoImage
    /\ alpha_frames # <<>>
    /\ alpha_index > 0
====
